---------------------------- MODULE Spec2Model ----------------------------
(* A model of the Mini Shop storefront (src/src/App.js): the cart ledger   *)
(* (addToCart / removeFromCart / updateQuantity / totals), the cart's      *)
(* persistence in localStorage, the one-shot catalog fetch, the derived    *)
(* product list (filter + sort) and the useDebounce hook.                  *)
EXTENDS Integers, Sequences, FiniteSets, TLC

VARIABLES
    \* ---- App component state (App.js 80-94) and its environment
    mounted,          \* the App component has rendered once in this page load
    crashed,          \* a render or a state initialiser threw: the tree is gone
    loading,          \* useState(true), line 81
    error,            \* useState(null), line 82
    products,         \* useState([]), line 80
    productsDefined,  \* FALSE when setProducts received undefined
    cart,             \* useState(initialiser), line 91
    storage,          \* localStorage entry "cart": [present, text]
    fetchPending,     \* the promise of line 101 has not settled
    requests,         \* number of fetch() calls issued in this page load
    lastResponse,     \* ghost: how the last request ended ("none" before)
    \* ---- call record of the cart ledger (ghost)
    lastOp,           \* the last cart operation: its name, whether it changed the cart
    firstAdded,       \* ids in the order in which their current line was created
    \* ---- filter state (App.js 85-88) and the debounce hook (6-17)
    searchTerm,
    debouncedSearch,
    timers,           \* pending setTimeout callbacks: set of [value, remaining]
    held,             \* ghost: time searchTerm has kept its value, capped at Delay
    selectedCategory,
    sortOrder,
    filteredProducts, \* the useMemo cell of line 126
    catalog0          \* ghost: the catalog as it was delivered

appVars  == <<mounted, crashed, loading, error, products, productsDefined,
              cart, storage, fetchPending, requests, lastResponse>>
callVars == <<lastOp, firstAdded>>
viewVars == <<searchTerm, debouncedSearch, timers, held, selectedCategory,
              sortOrder, filteredProducts, catalog0>>
vars     == <<appVars, callVars, viewVars>>

-----------------------------------------------------------------------------
(* Bounds of the model *)

NumProducts == 2   \* products in a cart-side catalog, ids 1..NumProducts
MaxStock    == 2   \* stock values range over 0..MaxStock
ViewSize    == 2   \* products in a view-side catalog
MaxPrice    == 2   \* view-side prices range over 1..MaxPrice
Quanta      == 3   \* clock ticks per debounce delay

(* The debounce delay passed at App.js line 86 *)
Delay == 300

-----------------------------------------------------------------------------
(* Array helpers, as the JavaScript built-ins the code calls *)

Min(a, b) == IF a < b THEN a ELSE b

\* Array.prototype.reduce((sum, item) => sum + term(item), init): left fold,
\* terms being the sequence of term(item)
RECURSIVE Reduce(_, _)
Reduce(terms, sum) ==
    IF terms = <<>> THEN sum ELSE Reduce(Tail(terms), sum + Head(terms))

\* Array.prototype.find on the id: index of the first line with that id, 0 if none
FindIndexById(arr, id) ==
    IF \E i \in DOMAIN arr : arr[i].id = id
    THEN CHOOSE i \in DOMAIN arr :
            /\ arr[i].id = id
            /\ \A j \in DOMAIN arr : arr[j].id = id => i <= j
    ELSE 0

-----------------------------------------------------------------------------
(* Titles are sequences of characters; String.prototype.toLowerCase and     *)
(* String.prototype.includes as they act on them.                           *)

LowerChar(c) == CASE c = "A" -> "a" [] c = "B" -> "b" [] OTHER -> c

toLowerCase(s) == [i \in DOMAIN s |-> LowerChar(s[i])]

includes(s, t) ==
    \E k \in 0..(Len(s) - Len(t)) : SubSeq(s, k + 1, k + Len(t)) = t

-----------------------------------------------------------------------------
(* Products and cart lines *)

Product(i, t, c, p, s) ==
    [id |-> i, title |-> t, category |-> c, price |-> p, stock |-> s]

\* { ...product, quantity: q }
Line(product, q) ==
    [id |-> product.id, title |-> product.title, category |-> product.category,
     price |-> product.price, stock |-> product.stock, quantity |-> q]

TitleOf(i)    == CASE i % 3 = 1 -> <<"A", "b">>
                   [] i % 3 = 2 -> <<"b", "a">>
                   [] OTHER     -> <<"B">>
CategoryOf(i) == IF i % 2 = 1 THEN "beauty" ELSE "fragrances"
PriceOf(i)    == 3 * i + 2

ProductIds == 1..NumProducts

\* catalogs the cart-side specifications draw from: product i has id i; the
\* stock levels run through 0..MaxStock and differ from catalog to catalog
StockIn(k, i) == (i - 1 + k) % (MaxStock + 1)

CartCatalogs ==
    { [i \in ProductIds |->
          Product(i, TitleOf(i), CategoryOf(i), PriceOf(i), StockIn(k, i))] :
      k \in 0..MaxStock }

NoProduct == Product(0, <<>>, "", 0, 0)


-----------------------------------------------------------------------------
(* Cart ledger: the three state updaters of App.js 144-170 and the totals   *)
(* of 179-180, as functions of the previous cart.                           *)

\* a variant that appends without looking for an existing line
addToCartNoFind(prev, product) == Append(prev, Line(product, 1))

addToCart(prev, product) ==
    LET existing == FindIndexById(prev, product.id)
    IN  IF existing # 0
        THEN IF prev[existing].quantity < product.stock
             THEN [i \in DOMAIN prev |->
                     IF prev[i].id = product.id
                     THEN [prev[i] EXCEPT !.quantity = @ + 1]
                     ELSE prev[i]]
             ELSE prev
        ELSE Append(prev, Line(product, 1))

\* a variant that deletes by position instead of by id
removeFromCartByIndex(prev, id) ==
    [i \in 1..(Len(prev) - (IF id \in DOMAIN prev THEN 1 ELSE 0)) |->
        IF i < id THEN prev[i] ELSE prev[i + 1]]

removeFromCart(prev, id) ==
    LET keep(item) == item.id # id
    IN  SelectSeq(prev, keep)

updateQuantity(prev, id, newQty, maxStock) ==
    IF newQty < 1 \/ newQty > maxStock
    THEN prev
    ELSE [i \in DOMAIN prev |->
            IF prev[i].id = id THEN [prev[i] EXCEPT !.quantity = newQty]
            ELSE prev[i]]

totalItems(c) == Reduce([i \in DOMAIN c |-> c[i].quantity], 0)

\* a variant that forgets the quantity
totalPriceUnit(c) == Reduce([i \in DOMAIN c |-> c[i].price], 0)

totalPrice(c) == Reduce([i \in DOMAIN c |-> c[i].price * c[i].quantity], 0)

-----------------------------------------------------------------------------
(* SpecCart: the cart ledger called with arbitrary arguments, starting from *)
(* the empty cart, over a catalog fixed for the session.                    *)

NoOp == [name |-> "none", changed |-> FALSE]

AppIdle ==
    /\ mounted = TRUE
    /\ crashed = FALSE
    /\ loading = FALSE
    /\ error = "null"
    /\ productsDefined = TRUE
    /\ fetchPending = FALSE
    /\ requests = 1
    /\ lastResponse = "ok"

CallIdle ==
    /\ lastOp = NoOp
    /\ firstAdded = <<>>

ViewIdle ==
    /\ searchTerm = <<>>
    /\ debouncedSearch = <<>>
    /\ timers = {}
    /\ held = 0
    /\ selectedCategory = "all"
    /\ sortOrder = ""
    /\ filteredProducts = <<>>
    /\ catalog0 = <<>>

\* ids the calls range over: one more than the catalog holds
CallIds == 1..(NumProducts + 1)
\* quantities and ceilings the calls range over
CallQtys == 0..(MaxStock + 1)

InitCart ==
    /\ AppIdle
    /\ products \in CartCatalogs
    /\ cart = <<>>
    /\ storage = [present |-> FALSE, text |-> <<>>]
    /\ CallIdle
    /\ ViewIdle

CartFrame ==
    UNCHANGED <<mounted, crashed, loading, error, products, productsDefined,
                storage, fetchPending, requests, lastResponse, viewVars>>

\* ghost: the ids in the order in which their current lines were created
FirstAddedAfterAdd(order, id) ==
    IF \E i \in DOMAIN order : order[i] = id THEN order ELSE Append(order, id)

FirstAddedAfterRemove(order, id) ==
    LET other(x) == x # id IN SelectSeq(order, other)

CallAddToCart(p) ==
    /\ cart' = addToCart(cart, p)
    /\ lastOp' = [name |-> "add", changed |-> cart' # cart]
    /\ firstAdded' = FirstAddedAfterAdd(firstAdded, p.id)
    /\ CartFrame

CallRemoveFromCart(id) ==
    /\ cart' = removeFromCart(cart, id)
    /\ lastOp' = [name |-> "remove", changed |-> cart' # cart]
    /\ firstAdded' = FirstAddedAfterRemove(firstAdded, id)
    /\ CartFrame

CallUpdateQuantity(id, newQty, maxStock) ==
    /\ cart' = updateQuantity(cart, id, newQty, maxStock)
    /\ lastOp' = [name |-> "update", changed |-> cart' # cart]
    /\ UNCHANGED firstAdded
    /\ CartFrame

NextCart ==
    \/ \E i \in DOMAIN products : CallAddToCart(products[i])
    \/ \E id \in CallIds : CallRemoveFromCart(id)
    \/ \E id \in CallIds, q \in CallQtys, m \in CallQtys :
          CallUpdateQuantity(id, q, m)

SpecCart == InitCart /\ [][NextCart]_vars

-----------------------------------------------------------------------------
(* Claims about the cart ledger, checked under SpecCart *)

LineIds(c) == [i \in DOMAIN c |-> c[i].id]

HasLine(c, id) == \E i \in DOMAIN c : c[i].id = id

\* the line of product id in cart c (c holds one)
LineOf(c, id) == c[CHOOSE i \in DOMAIN c : c[i].id = id]

\* sum of the function f over the set S, independent of the fold
RECURSIVE SumOver(_, _)
SumOver(f, S) ==
    IF S = {} THEN 0
    ELSE LET i == CHOOSE x \in S : TRUE
         IN  f[i] + SumOver(f, S \ {i})

\* C2: addToCart(K, P) never yields a line for P whose quantity exceeds
\* P.stock, whatever the caller allowed: a missing line is created only
\* within the ceiling, an existing line below the ceiling grows by one, and
\* otherwise the cart is returned unchanged.
C2_AddNeverExceedsStock ==
    [][\A i \in DOMAIN products :
          CallAddToCart(products[i]) =>
             /\ HasLine(cart', products[i].id) =>
                   LineOf(cart', products[i].id).quantity <= products[i].stock
             /\ HasLine(cart, products[i].id) =>
                   \/ cart' = cart
                   \/ /\ LineOf(cart, products[i].id).quantity < products[i].stock
                      /\ LineOf(cart', products[i].id).quantity =
                            LineOf(cart, products[i].id).quantity + 1]_vars

\* C3: from the empty cart, any sequence of calls leaves at most one line
\* per product id, and the lines stand in the order in which their products
\* were first added (the add that created the line; incrementing or
\* setting a quantity neither moves nor duplicates it).
C3_UniqueInFirstAddOrder ==
    /\ \A i, j \in DOMAIN cart : cart[i].id = cart[j].id => i = j
    /\ LineIds(cart) = firstAdded

C3_Witness ==
    /\ Len(cart) = 2
    /\ cart[1].id = 2
    /\ cart[1].quantity = 2
    /\ lastOp = [name |-> "add", changed |-> TRUE]

\* C4: updateQuantity leaves the cart equal to its input whenever the new
\* quantity is outside [1, stock ceiling of the matching line] or no line
\* has the id, whatever ceiling the caller supplies; in range it sets the
\* matching line's quantity and nothing else.
C4_SetQuantityEnforcesCeiling ==
    [][\A id \in CallIds, q \in CallQtys, m \in CallQtys :
          CallUpdateQuantity(id, q, m) =>
             IF HasLine(cart, id) /\ 1 <= q /\ q <= LineOf(cart, id).stock
             THEN /\ DOMAIN cart' = DOMAIN cart
                  /\ \A i \in DOMAIN cart :
                        cart'[i] = IF cart[i].id = id
                                   THEN [cart[i] EXCEPT !.quantity = q]
                                   ELSE cart[i]
             ELSE cart' = cart]_vars

\* C5: removeFromCart deletes exactly the line with the given id: the
\* result is the input without that line, the other lines identical and in
\* the same relative order; with no such line the cart keeps its contents.
C5_RemoveDeletesOnlyThatLine ==
    [][\A id \in CallIds :
          CallRemoveFromCart(id) =>
             LET kept == {i \in DOMAIN cart : cart[i].id # id}
             IN  /\ Len(cart') = Cardinality(kept)
                 /\ \E f \in [DOMAIN cart' -> kept] :
                       /\ \A a, b \in DOMAIN cart' : a < b => f[a] < f[b]
                       /\ \A a \in DOMAIN cart' : cart'[a] = cart[f[a]]
                 /\ ~HasLine(cart, id) => cart' = cart]_vars

C5_Witness ==
    /\ lastOp = [name |-> "remove", changed |-> TRUE]
    /\ Len(cart) = 1
    /\ cart[1].id = 1
    /\ firstAdded = <<1>>

\* C6: the item count is the sum of the line quantities and the total price
\* the sum of price x quantity over the lines, unrounded; both are 0 for the
\* empty cart.
C6_TotalsAreSums ==
    LET qty == [i \in DOMAIN cart |-> cart[i].quantity]
        amount == [i \in DOMAIN cart |-> cart[i].price * cart[i].quantity]
    IN  /\ totalItems(cart) = SumOver(qty, DOMAIN cart)
        /\ totalPrice(cart) = SumOver(amount, DOMAIN cart)
        /\ cart = <<>> => totalItems(cart) = 0 /\ totalPrice(cart) = 0

C6_Witness ==
    /\ Len(cart) = 2
    /\ cart[1].quantity = 2
    /\ totalItems(cart) = 3
    /\ totalPrice(cart) = 2 * cart[1].price + cart[2].price

-----------------------------------------------------------------------------
(* The cart in localStorage: JSON.stringify / JSON.parse on a text of       *)
(* tokens, and the lazy initial state of App.js 91-94.                      *)

Tok(kind, num, str, word) == [k |-> kind, n |-> num, s |-> str, w |-> word]
Punct(c)  == Tok(c, 0, <<>>, "")
NumTok(n) == Tok("num", n, <<>>, "")
StrTok(t) == Tok("str", 0, t, "")
WordTok(w) == Tok("word", 0, <<>>, w)

LineText(item) ==
    << Punct("{"), NumTok(item.id), StrTok(item.title), WordTok(item.category),
       NumTok(item.price), NumTok(item.stock), NumTok(item.quantity), Punct("}") >>

LineTextLen == Len(LineText(Line(NoProduct, 0)))

RECURSIVE LinesText(_)
LinesText(c) == IF c = <<>> THEN <<>> ELSE LineText(Head(c)) \o LinesText(Tail(c))

JSONstringify(c) == <<Punct("[")>> \o LinesText(c) \o <<Punct("]")>>

\* whether the tokens of text from position at on are one serialized line
IsLineText(text, at) ==
    /\ text[at].k = "{"
    /\ text[at + 1].k = "num"
    /\ text[at + 2].k = "str"
    /\ text[at + 3].k = "word"
    /\ text[at + 4].k = "num"
    /\ text[at + 5].k = "num"
    /\ text[at + 6].k = "num"
    /\ text[at + 7].k = "}"

ParseLine(text, at) ==
    [id |-> text[at + 1].n, title |-> text[at + 2].s,
     category |-> text[at + 3].w, price |-> text[at + 4].n,
     stock |-> text[at + 5].n, quantity |-> text[at + 6].n]

\* JSON.parse: throws a SyntaxError on a text that is not JSON; the value
\* it returns need not be an array
JSONparse(text) ==
    IF text = <<Punct("null")>>
    THEN [threw |-> FALSE, isArray |-> FALSE, value |-> <<>>]
    ELSE IF /\ Len(text) >= 2
            /\ text[1].k = "["
            /\ text[Len(text)].k = "]"
            /\ (Len(text) - 2) % LineTextLen = 0
            /\ \A g \in 0..((Len(text) - 2) \div LineTextLen - 1) :
                  IsLineText(text, 2 + g * LineTextLen)
         THEN [threw |-> FALSE, isArray |-> TRUE,
               value |-> [g \in 1..((Len(text) - 2) \div LineTextLen) |->
                             ParseLine(text, 2 + (g - 1) * LineTextLen)]]
         ELSE [threw |-> TRUE, isArray |-> FALSE, value |-> <<>>]

Absent == [present |-> FALSE, text |-> <<>>]
Stored(text) == [present |-> TRUE, text |-> text]

\* const saved = localStorage.getItem("cart"); saved ? JSON.parse(saved) : []
\* (null and the empty string are falsy)
cartInitialState(store) ==
    IF ~store.present \/ store.text = <<>>
    THEN [threw |-> FALSE, isArray |-> TRUE, value |-> <<>>]
    ELSE JSONparse(store.text)

\* localStorage.setItem("cart", JSON.stringify(cart)), the effect of 114-116
persistCart(c) == Stored(JSONstringify(c))

-----------------------------------------------------------------------------
(* The catalog request of App.js 97-111 *)

FailMessage == "Failed to load products. Please try again."

\* ways the request can end
Response(kind, prods) == [kind |-> kind, products |-> prods]

Responses ==
    {Response(k, <<>>) : k \in {"networkError", "notJson", "jsonNull", "noProducts"}}
    \cup {Response("ok", c) : c \in CartCatalogs}

\* the state fetchProducts leaves: fetch() or res.json() rejecting, or
\* data being null (data.products throws), lands in catch; otherwise
\* setProducts(data.products) runs, with undefined when there is no such
\* field; finally always clears loading
fetchProducts(resp, prods) ==
    IF resp.kind \in {"networkError", "notJson", "jsonNull"}
    THEN [products |-> prods, defined |-> TRUE, error |-> FailMessage,
          loading |-> FALSE]
    ELSE [products |-> resp.products, defined |-> resp.kind = "ok",
          error |-> "null", loading |-> FALSE]

\* what the page shows (App.js 182-185); a render that throws unmounts the tree
View ==
    IF crashed THEN "crash"
    ELSE IF ~mounted THEN "none"
    ELSE IF loading THEN "loading"
    ELSE IF error # "null" THEN "error"
    ELSE "shop"

-----------------------------------------------------------------------------
(* Spec: the application over page loads. The handlers are the ones the     *)
(* rendered controls can invoke (a disabled button invokes nothing).        *)

\* values the "cart" entry can hold before the app first runs
ForeignTexts == { <<>>, <<Punct("["), Punct("{")>>, <<Punct("null")>> }

Init ==
    /\ mounted = FALSE
    /\ crashed = FALSE
    /\ loading = TRUE
    /\ error = "null"
    /\ products = <<>>
    /\ productsDefined = TRUE
    /\ cart = <<>>
    /\ storage \in {Absent} \cup {Stored(t) : t \in ForeignTexts}
    /\ fetchPending = FALSE
    /\ requests = 0
    /\ lastResponse = "none"
    /\ CallIdle
    /\ ViewIdle

\* first render of App: the state initialisers run, totalItems reads
\* cart.reduce (line 179), then the two mount effects run: the request is
\* issued and the cart is written back
Mount ==
    /\ ~mounted /\ ~crashed
    /\ LET init == cartInitialState(storage)
       IN  IF init.threw \/ ~init.isArray
           THEN /\ crashed' = TRUE
                /\ UNCHANGED <<mounted, cart, storage, fetchPending, requests>>
           ELSE /\ mounted' = TRUE
                /\ cart' = init.value
                /\ storage' = persistCart(cart')
                /\ fetchPending' = TRUE
                /\ requests' = requests + 1
                /\ UNCHANGED crashed
    /\ UNCHANGED <<loading, error, products, productsDefined, lastResponse,
                   callVars, viewVars>>

\* the request settles; the re-render maps over products (line 121)
FetchSettle(resp) ==
    /\ mounted /\ ~crashed /\ fetchPending
    /\ LET after == fetchProducts(resp, products)
       IN  /\ products' = after.products
           /\ productsDefined' = after.defined
           /\ error' = after.error
           /\ loading' = after.loading
           /\ crashed' = ~after.defined
    /\ fetchPending' = FALSE
    /\ lastResponse' = resp.kind
    /\ UNCHANGED <<mounted, cart, storage, requests, callVars, viewVars>>

\* "Add to Cart" on a product card (lines 38-42): disabled when stock <= 0
ClickAdd(p) ==
    /\ View = "shop"
    /\ ~(p.stock <= 0)
    /\ cart' = addToCart(cart, p)
    /\ storage' = persistCart(cart')
    /\ lastOp' = [name |-> "add", changed |-> cart' # cart]
    /\ UNCHANGED <<mounted, crashed, loading, error, products, productsDefined,
                   fetchPending, requests, lastResponse, firstAdded, viewVars>>

\* "+" on a cart item (lines 65-68): disabled when quantity >= stock
ClickPlus(item) ==
    /\ View = "shop"
    /\ ~(item.quantity >= item.stock)
    /\ cart' = updateQuantity(cart, item.id, item.quantity + 1, item.stock)
    /\ storage' = persistCart(cart')
    /\ lastOp' = [name |-> "update", changed |-> cart' # cart]
    /\ UNCHANGED <<mounted, crashed, loading, error, products, productsDefined,
                   fetchPending, requests, lastResponse, firstAdded, viewVars>>

\* "-" on a cart item (lines 60-63): disabled when quantity <= 1
ClickMinus(item) ==
    /\ View = "shop"
    /\ ~(item.quantity <= 1)
    /\ cart' = updateQuantity(cart, item.id, item.quantity - 1, item.stock)
    /\ storage' = persistCart(cart')
    /\ lastOp' = [name |-> "update", changed |-> cart' # cart]
    /\ UNCHANGED <<mounted, crashed, loading, error, products, productsDefined,
                   fetchPending, requests, lastResponse, firstAdded, viewVars>>

\* "Remove" on a cart item (line 70)
ClickRemove(item) ==
    /\ View = "shop"
    /\ cart' = removeFromCart(cart, item.id)
    /\ storage' = persistCart(cart')
    /\ lastOp' = [name |-> "remove", changed |-> cart' # cart]
    /\ UNCHANGED <<mounted, crashed, loading, error, products, productsDefined,
                   fetchPending, requests, lastResponse, firstAdded, viewVars>>

\* the page is loaded again: memory is lost, localStorage stays
Reload ==
    /\ mounted \/ crashed
    /\ mounted' = FALSE
    /\ crashed' = FALSE
    /\ loading' = TRUE
    /\ error' = "null"
    /\ products' = <<>>
    /\ productsDefined' = TRUE
    /\ cart' = <<>>
    /\ fetchPending' = FALSE
    /\ requests' = 0
    /\ lastResponse' = "none"
    /\ lastOp' = NoOp
    /\ UNCHANGED <<storage, firstAdded, viewVars>>

Next ==
    \/ Mount
    \/ \E resp \in Responses : FetchSettle(resp)
    \/ \E i \in DOMAIN products : ClickAdd(products[i])
    \/ \E i \in DOMAIN cart : ClickPlus(cart[i])
    \/ \E i \in DOMAIN cart : ClickMinus(cart[i])
    \/ \E i \in DOMAIN cart : ClickRemove(cart[i])
    \/ Reload

Spec == Init /\ [][Next]_vars

-----------------------------------------------------------------------------
(* Claims about the application, checked under Spec *)

\* C1: in every reachable state each cart line has
\* 1 <= quantity <= the stock value captured on the line when it was added.
C1_QuantityWithinCapturedStock ==
    \A i \in DOMAIN cart :
        1 <= cart[i].quantity /\ cart[i].quantity <= cart[i].stock

\* a text is one the app wrote when it is the serialization of the cart it
\* parses to
WrittenByApp(text) ==
    /\ ~JSONparse(text).threw
    /\ JSONparse(text).isArray
    /\ JSONstringify(JSONparse(text).value) = text

\* C9: at startup the cart is initialised from the persisted value: absent
\* gives the empty cart, a value the app wrote gives that cart, and a
\* malformed value gives the empty cart without crashing.
C9_StartupCartFromStorage ==
    [][Mount =>
          /\ ~crashed'
          /\ mounted'
          /\ IF storage.present /\ WrittenByApp(storage.text)
             THEN JSONstringify(cart') = storage.text
             ELSE cart' = <<>>]_vars

\* C10: the catalog is requested once per page load and never retried, and
\* every failure of the request (network error, malformed response, a
\* response carrying no product sequence) ends in the error view with no
\* catalog shown, not in a crash or a normal-looking view.
C10_FetchFailureShowsError ==
    /\ requests <= 1
    /\ lastResponse \notin {"none", "ok"} =>
          /\ View = "error"
          /\ ~loading
          /\ products = <<>>

-----------------------------------------------------------------------------
(* The derived product list of App.js 120-139 *)

\* the comparator of lines 134-138
byPrice(order, a, b) ==
    IF order = "low" THEN a.price - b.price
    ELSE IF order = "high" THEN b.price - a.price
    ELSE 0

\* Array.prototype.sort(byPrice) is stable: insertion behind every element
\* that does not compare greater
RECURSIVE InsertSorted(_, _, _)
InsertSorted(order, x, sorted) ==
    IF sorted = <<>> THEN <<x>>
    ELSE IF byPrice(order, Head(sorted), x) <= 0
         THEN <<Head(sorted)>> \o InsertSorted(order, x, Tail(sorted))
         ELSE <<x>> \o sorted

RECURSIVE SortInto(_, _, _)
SortInto(order, arr, sorted) ==
    IF arr = <<>> THEN sorted
    ELSE SortInto(order, Tail(arr), InsertSorted(order, Head(arr), sorted))

ArraySort(order, arr) == SortInto(order, arr, <<>>)

\* a variant that compares the title with the search text as typed
filteredProductsCaseSensitive(prods, search, category, order) ==
    LET byTitle(p) == includes(toLowerCase(p.title), search)
        byCategory(p) == category = "all" \/ p.category = category
    IN  ArraySort(order, SelectSeq(SelectSeq(prods, byTitle), byCategory))

filteredProductsMemo(prods, search, category, order) ==
    LET byTitle(p) == includes(toLowerCase(p.title), toLowerCase(search))
        byCategory(p) == category = "all" \/ p.category = category
    IN  ArraySort(order, SelectSeq(SelectSeq(prods, byTitle), byCategory))

\* ["all", ...new Set(products.map(p => p.category))], as a set of options
categories(prods) == {"all"} \cup {prods[i].category : i \in DOMAIN prods}

-----------------------------------------------------------------------------
(* useDebounce (App.js 6-17). Time advances in ticks of Delay / Quanta.     *)

TickLen == Delay \div Quanta

\* a variant whose effect cleanup does not cancel the pending timeout
clearTimeoutMissing(pending) == pending

\* the cleanup of the previous effect: clearTimeout(handler)
clearTimeout(pending) == {}

\* the effect of lines 9-14, re-run because value changed
useDebounceEffect(pending, value) ==
    clearTimeout(pending) \cup {[value |-> value, remaining |-> Delay]}

-----------------------------------------------------------------------------
(* SpecView: the filter bar over a loaded catalog *)

SearchTexts == { <<>>, <<"a">>, <<"B">>, <<"a", "B">> }
CategoryNames == {"beauty", "fragrances"}
SortOrders == {"", "low", "high"}

ViewIds == 1..ViewSize

ViewCatalogs ==
    { [i \in ViewIds |-> Product(i, TitleOf(i), cat[i], pr[i], 1)] :
      cat \in [ViewIds -> CategoryNames], pr \in [ViewIds -> 1..MaxPrice] }

InitView ==
    /\ AppIdle
    /\ products \in ViewCatalogs
    /\ cart = <<>>
    /\ storage = persistCart(<<>>)
    /\ CallIdle
    /\ searchTerm = <<>>
    /\ debouncedSearch = <<>>
    /\ timers = useDebounceEffect({}, <<>>)
    /\ held = 0
    /\ selectedCategory = "all"
    /\ sortOrder = ""
    /\ filteredProducts = filteredProductsMemo(products, <<>>, "all", "")
    /\ catalog0 = products

ViewFrame == UNCHANGED <<appVars, callVars, catalog0>>

\* onChange of the search box (line 204): setSearchTerm, then the debounce
\* effect re-runs; debouncedSearch is untouched, so the memo is kept
TypeSearch(v) ==
    /\ v # searchTerm
    /\ searchTerm' = v
    /\ timers' = useDebounceEffect(timers, v)
    /\ held' = 0
    /\ UNCHANGED <<debouncedSearch, selectedCategory, sortOrder, filteredProducts>>
    /\ ViewFrame

\* time passes; a due timeout may still be waiting for the event loop
Tick ==
    /\ timers' = {[t EXCEPT !.remaining =
                      IF @ > TickLen THEN @ - TickLen ELSE 0] : t \in timers}
    /\ held' = Min(held + TickLen, Delay)
    /\ UNCHANGED <<searchTerm, debouncedSearch, selectedCategory, sortOrder,
                   filteredProducts>>
    /\ ViewFrame

\* a due timeout runs: setDebouncedValue(value) with the value it closed over
TimerFire(t) ==
    /\ t \in timers
    /\ t.remaining = 0
    /\ timers' = timers \ {t}
    /\ debouncedSearch' = t.value
    /\ filteredProducts' =
          filteredProductsMemo(products, debouncedSearch', selectedCategory, sortOrder)
    /\ UNCHANGED <<searchTerm, held, selectedCategory, sortOrder>>
    /\ ViewFrame

\* onChange of the category select (line 210)
SelectCategory(c) ==
    /\ selectedCategory' = c
    /\ filteredProducts' =
          filteredProductsMemo(products, debouncedSearch, c, sortOrder)
    /\ UNCHANGED <<searchTerm, debouncedSearch, timers, held, sortOrder>>
    /\ ViewFrame

\* onChange of the sort select (line 222)
SelectSort(o) ==
    /\ sortOrder' = o
    /\ filteredProducts' =
          filteredProductsMemo(products, debouncedSearch, selectedCategory, o)
    /\ UNCHANGED <<searchTerm, debouncedSearch, timers, held, selectedCategory>>
    /\ ViewFrame

\* clearFilters (lines 172-176)
ClearFilters ==
    /\ searchTerm' = <<>>
    /\ selectedCategory' = "all"
    /\ sortOrder' = ""
    /\ IF searchTerm # <<>>
       THEN timers' = useDebounceEffect(timers, <<>>) /\ held' = 0
       ELSE UNCHANGED <<timers, held>>
    /\ filteredProducts' = filteredProductsMemo(products, debouncedSearch, "all", "")
    /\ UNCHANGED debouncedSearch
    /\ ViewFrame

NextView ==
    \/ \E v \in SearchTexts : TypeSearch(v)
    \/ Tick
    \/ \E t \in timers : TimerFire(t)
    \/ \E c \in categories(products) : SelectCategory(c)
    \/ \E o \in SortOrders : SelectSort(o)
    \/ ClearFilters

SpecView == InitView /\ [][NextView]_vars

\* the same filter bar over one catalog, with the event loop's guarantees:
\* time advances and a due timeout is eventually run
InitDebounce ==
    /\ InitView
    /\ \A i \in DOMAIN products :
          products[i].category = "beauty" /\ products[i].price = 1

SpecDebounce ==
    /\ InitDebounce
    /\ [][NextView]_vars
    /\ WF_vars(Tick)
    /\ WF_vars(\E t \in timers : TimerFire(t))

-----------------------------------------------------------------------------
(* Claims about the filter bar *)

\* title contains text, compared character by character without case
ContainsIgnoringCase(title, text) ==
    \E k \in 0..(Len(title) - Len(text)) :
        \A j \in 1..Len(text) : LowerChar(title[k + j]) = LowerChar(text[j])

Matches(p) ==
    /\ ContainsIgnoringCase(p.title, debouncedSearch)
    /\ selectedCategory = "all" \/ p.category = selectedCategory

\* position in the catalog of the product with this id, 0 if none
CatalogIndex(id) ==
    IF \E j \in DOMAIN products : products[j].id = id
    THEN CHOOSE j \in DOMAIN products : products[j].id = id
    ELSE 0

\* C7: the visible list is a sub-collection of the catalog without
\* duplicates, holds exactly the products matching the search text
\* (case-insensitively) and the category, is ordered by price as the sort
\* order says and in catalog order when none is selected; the catalog
\* itself stays as delivered.
C7_VisibleProducts ==
    /\ products = catalog0
    /\ \A i \in DOMAIN filteredProducts :
          /\ CatalogIndex(filteredProducts[i].id) # 0
          /\ filteredProducts[i] = products[CatalogIndex(filteredProducts[i].id)]
    /\ \A i, j \in DOMAIN filteredProducts :
          filteredProducts[i].id = filteredProducts[j].id => i = j
    /\ \A j \in DOMAIN products :
          Matches(products[j]) <=>
             \E i \in DOMAIN filteredProducts : filteredProducts[i] = products[j]
    /\ \A i, j \in DOMAIN filteredProducts :
          i < j =>
             CASE sortOrder = "low" ->
                     filteredProducts[i].price <= filteredProducts[j].price
               [] sortOrder = "high" ->
                     filteredProducts[i].price >= filteredProducts[j].price
               [] OTHER ->
                     CatalogIndex(filteredProducts[i].id)
                        < CatalogIndex(filteredProducts[j].id)

C7_Witness ==
    /\ debouncedSearch = <<"B">>
    /\ sortOrder = "low"
    /\ selectedCategory = "all"
    /\ Len(filteredProducts) = 2
    /\ filteredProducts[1].id = 2
    /\ filteredProducts[2].id = 1

\* C8: debouncedSearch changes only to the value searchTerm has held for
\* the whole delay; a keystroke cancels the pending timeout, so a superseded
\* value is never forwarded; and once typing stops, debouncedSearch
\* eventually equals the last searchTerm.
C8_Debounce ==
    /\ [][debouncedSearch' # debouncedSearch =>
             /\ debouncedSearch' = searchTerm
             /\ held = Delay]_vars
    /\ [][searchTerm' # searchTerm =>
             timers' = {[value |-> searchTerm', remaining |-> Delay]}]_vars
    /\ \A v \in SearchTexts :
          <>[](searchTerm = v) => <>[](debouncedSearch = v)

C8_Witness ==
    /\ searchTerm = <<"a", "B">>
    /\ debouncedSearch = <<"a", "B">>
    /\ timers = {}
    /\ held = Delay

=============================================================================
